---- MODULE Spec2Model ----
(***************************************************************************)
(* webp-equiv: the adaptive quality search of webpRecompress               *)
(* (src/unnamed/part_000).  One search of one image is modelled as a       *)
(* sequential process whose position is pc; every await of a collaborator  *)
(* (stat, identify, convert, trial, cleanUp, encodeWebp) is one step whose *)
(* answer is chosen by the environment.  Scores and thresholds are         *)
(* integers in units of 1/TScale, so that 1.0 is TScale.                   *)
(***************************************************************************)
EXTENDS Integers, Sequences, FiniteSets, TLC

VARIABLES
    pc,                  \* position in webpRecompress
    args,                \* arguments of the top-level call
    threshold,           \* parameter threshold of the current (recursive) call
    thresholdMultiplier, \* parameter thresholdMultiplier, <<numerator, denominator>>
    start,               \* parameter start
    prior,               \* parameter prior
    quality,             \* let quality
    trials,              \* let trials: quality -> [score, size, attempts]
    inputSize,           \* const inputSize
    score,               \* let score
    size,                \* let size
    result,              \* the value the top-level promise settles with
    attempt,             \* depth of the recursion, 1 for the top-level call
    exit,                \* how the do/while loop was last left
    probes,              \* the loop's trials of this search, in order
    calls,               \* collaborator invocations of this search
    trialFailed,         \* some trial of this search reported an error
    world,               \* latest answer of every collaborator, per input
    flips,               \* answers that differed from the one before
    run,                 \* 1: first top-level invocation, 2: the same again
    first                \* outcome of the first invocation

vars == <<pc, args, threshold, thresholdMultiplier, start, prior, quality,
          trials, inputSize, score, size, result, attempt, exit, probes,
          calls, trialFailed, world, flips, run, first>>

(***************************************************************************)
(* Bounds of the model.                                                    *)
(***************************************************************************)
TScale == 8          \* threshold units per 1.0
RoundStep == 4       \* threshold units per unit of roundTo's precision
MaxTrials == 6       \* loop trials explored in one search
MaxAttempts == 4     \* recursion depth explored
MaxUnder == 8        \* how far below quality 0 the search is followed
MaxFlips == 1        \* answers that may differ from an earlier answer

(***************************************************************************)
(* Program constants.                                                      *)
(***************************************************************************)
MinQuality == 0
MaxQuality == 100
MaxRetries == 3      \* attempts > 3
Nudge == 2           \* quality -= 2 / quality += 2

Kinds == {"png", "jpeg", "other"}
Thresholds == {-1, 1, 2, 4, TScale + 1}
Multipliers == {<<1, 1>>, <<3, 2>>, <<2, 1>>}
Starts == {0, 99, MaxQuality + 3}
Guesses == {MaxQuality}
InputSizes == {3}
\* what a trial may measure, <<score, size>>
Measures == {<<2, 2>>, <<3, 1>>, <<6, 1>>, <<3, 3>>}

Abs(x) == IF x < 0 THEN -x ELSE x

\* lib/utils.mjs clampQuality
clampQuality(q) ==
    IF q < MinQuality THEN MinQuality ELSE IF q > MaxQuality THEN MaxQuality ELSE q

\* lib/utils.mjs getQualityInterval: proportional to the gap, at least 1
getQualityInterval(sc, th, q) ==
    LET gap == Abs(sc - th)
    IN IF gap < 1 THEN 1 ELSE gap

\* lib/utils.mjs roundTo with its default precision, applied to n/d:
\* Math.round(x / RoundStep) * RoundStep, Math.round being floor(x + 1/2)
roundTo(n, d) ==
    ((2 * n + d * RoundStep) \div (2 * d * RoundStep)) * RoundStep

\* roundTo(threshold * thresholdMultiplier), line 177
relaxThresholdDivides(th, mul) == roundTo(th * mul[2], mul[1])
relaxThreshold(th, mul) == roundTo(th * mul[1], mul[2])

\* pngRegex.test(input), line 18
TakesPngBranchNever(k) == FALSE
TakesPngBranch(k) == k = "png"

\* !jpegRegex.test(input) && !pngRegex.test(input), line 54
BadFormat(k) == k # "jpeg" /\ k # "png"

\* threshold > 1 || threshold < 0, line 64
BadThresholdBelowOnly(th) == th < 0
BadThresholdNever(th) == FALSE
BadThreshold(th) == th > TScale \/ th < 0

\* if (!prior), line 91: only the top-level call guesses the JPEG quality
GuessesQualityAlways(pr) == TRUE
GuessesQuality(pr) == ~pr

\* start > 100 || start < 0 clamps, lines 59-61
clampStart(st) ==
    IF st > MaxQuality \/ st < MinQuality THEN clampQuality(st) ELSE st

\* trials = priorTrials || {}, line 70: the recursion passes its table, the
\* top-level call passes none
trialsAtEntryShared(pr, carried) == carried
trialsAtEntryFresh(pr, carried) == [q \in {} |-> 0]
trialsAtEntry(pr, carried) == IF pr THEN carried ELSE [q \in {} |-> 0]

\* trials[quality].attempts > 3, line 141
EscapesEarly(a) == a >= MaxRetries
EscapesLate(a) == a > MaxRetries + 1
Escapes(a) == a > MaxRetries

\* size >= inputSize, lines 142 and 153
SizeRegressedFlipped(sz, insz) == sz <= insz
SizeRegressed(sz, insz) == sz >= insz

\* score <= threshold, line 159
Converges(sc, th) == sc <= th

\* while (score > threshold || size >= inputSize), line 165
LoopAgainOnScore(sc, th, sz, insz) == sc > th
LoopAgain(sc, th, sz, insz) == sc > th \/ sz >= insz

\* score <= threshold && size < inputSize, line 167
SucceedsOnScore(sc, th, sz, insz) == sc <= th
Succeeds(sc, th, sz, insz) == sc <= th /\ sz < insz

\* lib/utils.mjs getFinalQuality(score, trials): the entries whose score
\* passes the bar it is given, the smallest size first, then the lower quality
candidates(bar, tr) == {q \in DOMAIN tr : tr[q].score <= bar}
getFinalQuality(bar, tr) ==
    LET c == candidates(bar, tr)
        best == CHOOSE q \in c : \A p \in c :
                    \/ tr[q].size < tr[p].size
                    \/ tr[q].size = tr[p].size /\ q <= p
    IN <<best, tr[best].size>>

NoResult == [state |-> "none", msg |-> "", quality |-> 0, size |-> 0]
Failure(m) == [state |-> "failure", msg |-> m, quality |-> 0, size |-> 0]
Success(m, q, s) == [state |-> "success", msg |-> m, quality |-> q, size |-> s]
Threw == [state |-> "threw", msg |-> "", quality |-> 0, size |-> 0]

NoCalls == [stat |-> 0, identify |-> 0, convert |-> 0, confirm |-> 0,
            cleanup |-> 0, encode |-> 0]

\* the record written at lines 128-136
recordAttempt(tr, q, sc, sz) ==
    LET had == IF q \in DOMAIN tr THEN tr[q]
               ELSE [score |-> sc, size |-> sz, attempts |-> 0]
    IN [p \in DOMAIN tr \cup {q} |->
          IF p = q THEN [had EXCEPT !.attempts = @ + 1] ELSE tr[p]]

EmptyTrials == [q \in {} |-> 0]

(***************************************************************************)
(* The environment: world holds the latest answer of every collaborator.   *)
(* A collaborator asked again for the same input may change its answer at  *)
(* most MaxFlips times in the first invocation, and answers as before in   *)
(* the repeated invocation.                                                *)
(***************************************************************************)
MayAnswer(key, val) ==
    IF key \in DOMAIN world
    THEN IF world[key] = val THEN TRUE ELSE run = 1 /\ flips < MaxFlips
    ELSE TRUE

Answered(key, val) ==
    /\ world' = [k \in DOMAIN world \cup {key} |->
                    IF k = key THEN val ELSE world[k]]
    /\ flips' = IF key \in DOMAIN world
                THEN IF world[key] = val THEN flips ELSE flips + 1
                ELSE flips

OkOrNot == {<<TRUE, 0, 0>>, <<FALSE, 0, 0>>}
\* lib/encode-webp.mjs: execFile(cwebp, ["-q", quality, "-mt", in, "-o", out])
\* resolves or rejects
EncodeAnswers == {<<TRUE, 0, 0>>, <<FALSE, 0, 0>>}
StatAnswers == {<<TRUE, s, 0>> : s \in InputSizes} \cup {<<FALSE, 0, 0>>}
GuessAnswers == {<<TRUE, g, 0>> : g \in Guesses} \cup {<<FALSE, 0, 0>>}
TrialAnswers == {<<TRUE, m[1], m[2]>> : m \in Measures} \cup {<<FALSE, 0, 0>>}

Init ==
    /\ pc = "idle"
    /\ args \in [kind : Kinds, threshold : Thresholds,
                 thresholdMultiplier : Multipliers, start : Starts]
    /\ threshold = 0
    /\ thresholdMultiplier = <<1, 1>>
    /\ start = 0
    /\ prior = FALSE
    /\ quality = 0
    /\ trials = EmptyTrials
    /\ inputSize = 0
    /\ score = 0
    /\ size = 0
    /\ result = NoResult
    /\ attempt = 0
    /\ exit = "none"
    /\ probes = <<>>
    /\ calls = NoCalls
    /\ trialFailed = FALSE
    /\ world = [k \in {} |-> 0]
    /\ flips = 0
    /\ run = 1
    /\ first = [result |-> NoResult, probes |-> <<>>]

\* the caller invokes webpRecompress(input, threshold, thresholdMultiplier, start)
Invoke ==
    /\ \/ pc = "idle"
       \/ pc = "done" /\ run = 1 /\ flips = 0
    /\ run' = IF pc = "idle" THEN 1 ELSE 2
    /\ first' = IF pc = "idle" THEN first
                ELSE [result |-> result, probes |-> probes]
    /\ pc' = "entry"
    /\ threshold' = args.threshold
    /\ thresholdMultiplier' = args.thresholdMultiplier
    /\ start' = args.start
    /\ prior' = FALSE
    /\ quality' = 0
    /\ inputSize' = 0
    /\ score' = 0
    /\ size' = 0
    /\ result' = NoResult
    /\ attempt' = 1
    /\ exit' = "none"
    /\ probes' = <<>>
    /\ calls' = NoCalls
    /\ trialFailed' = FALSE
    /\ UNCHANGED <<args, trials, world, flips>>

Return(r) ==
    /\ pc' = "done"
    /\ result' = r

Called(what) == calls' = [calls EXCEPT ![what] = @ + 1]

(***************************************************************************)
(* The PNG branch, lines 18-52.                                            *)
(***************************************************************************)
PngStatInput ==
    /\ pc = "entry"
    /\ TakesPngBranch(args.kind)
    /\ \E ans \in StatAnswers :
         /\ MayAnswer(<<"statInput", 0>>, ans)
         /\ Answered(<<"statInput", 0>>, ans)
         /\ IF ans[1]
            THEN /\ inputSize' = ans[2]
                 /\ pc' = "pngEncode"
                 /\ result' = result
            ELSE /\ Return(Failure("Couldn't get the size of PNG input."))
                 /\ inputSize' = inputSize
    /\ Called("stat")
    /\ UNCHANGED <<args, threshold, thresholdMultiplier, start, prior, quality,
                   trials, score, size, attempt, exit, probes, trialFailed,
                   run, first>>

PngEncode ==
    /\ pc = "pngEncode"
    /\ \E ans \in EncodeAnswers :
         /\ MayAnswer(<<"encodeWebp", MaxQuality>>, ans)
         /\ Answered(<<"encodeWebp", MaxQuality>>, ans)
         /\ IF ans[1]
            THEN /\ pc' = "pngStatOutput"
                 /\ result' = result
            ELSE Return(Failure("Couldn't encode lossless WebP from PNG input."))
    /\ Called("encode")
    /\ UNCHANGED <<args, threshold, thresholdMultiplier, start, prior, quality,
                   trials, inputSize, score, size, attempt, exit, probes,
                   trialFailed, run, first>>

PngStatOutput ==
    /\ pc = "pngStatOutput"
    /\ \E ans \in StatAnswers :
         /\ MayAnswer(<<"statOutput", 0>>, ans)
         /\ Answered(<<"statOutput", 0>>, ans)
         /\ IF ans[1]
            THEN Return(Success("Encoded lossless WebP from PNG input", MaxQuality, ans[2]))
            ELSE Return(Failure("Couldn't get the size of PNG input."))
    /\ Called("stat")
    /\ UNCHANGED <<args, threshold, thresholdMultiplier, start, prior, quality,
                   trials, inputSize, score, size, attempt, exit, probes,
                   trialFailed, run, first>>

(***************************************************************************)
(* Validation and set-up of one (recursive) call, lines 54-118.            *)
(***************************************************************************)
Validate ==
    /\ pc = "entry"
    /\ ~TakesPngBranch(args.kind)
    /\ IF BadFormat(args.kind)
       THEN /\ Return(Failure("Input must be a JPEG or PNG image."))
            /\ UNCHANGED <<start, quality, trials>>
       ELSE IF BadThreshold(threshold)
       THEN /\ Return(Failure("Threshold must be between 0 and 1."))
            /\ start' = clampStart(start)
            /\ UNCHANGED <<quality, trials>>
       ELSE /\ start' = clampStart(start)
            /\ quality' = clampStart(start)
            /\ trials' = trialsAtEntry(prior, trials)
            /\ pc' = "statInput"
            /\ result' = result
    /\ UNCHANGED <<args, threshold, thresholdMultiplier, prior, inputSize,
                   score, size, attempt, exit, probes, calls, trialFailed,
                   world, flips, run, first>>

StatInput ==
    /\ pc = "statInput"
    /\ \E ans \in StatAnswers :
         /\ MayAnswer(<<"statInput", 0>>, ans)
         /\ Answered(<<"statInput", 0>>, ans)
         /\ IF ans[1]
            THEN /\ inputSize' = ans[2]
                 /\ pc' = IF GuessesQuality(prior) THEN "identify" ELSE "convert"
                 /\ result' = result
            ELSE /\ Return(Failure("Couldn't get the size of JPEG input."))
                 /\ inputSize' = inputSize
    /\ Called("stat")
    /\ UNCHANGED <<args, threshold, thresholdMultiplier, start, prior, quality,
                   trials, score, size, attempt, exit, probes, trialFailed,
                   run, first>>

Identify ==
    /\ pc = "identify"
    /\ \E ans \in GuessAnswers :
         /\ MayAnswer(<<"identify", 0>>, ans)
         /\ Answered(<<"identify", 0>>, ans)
         /\ quality' = IF ans[1] THEN ans[2] ELSE start
    /\ pc' = "convert"
    /\ Called("identify")
    /\ UNCHANGED <<args, threshold, thresholdMultiplier, start, prior, trials,
                   inputSize, score, size, result, attempt, exit, probes,
                   trialFailed, run, first>>

Convert ==
    /\ pc = "convert"
    /\ \E ans \in OkOrNot :
         /\ MayAnswer(<<"convert", 0>>, ans)
         /\ Answered(<<"convert", 0>>, ans)
         /\ IF ans[1]
            THEN /\ pc' = "loop"
                 /\ result' = result
            ELSE Return(Failure("Couldn't create a PNG reference from the JPEG given"))
    /\ Called("convert")
    /\ UNCHANGED <<args, threshold, thresholdMultiplier, start, prior, quality,
                   trials, inputSize, score, size, attempt, exit, probes,
                   trialFailed, run, first>>

(***************************************************************************)
(* One iteration of the do/while loop, lines 120-165: the trial, the       *)
(* record of the attempt, the escape rule and the decision ladder.         *)
(***************************************************************************)
Probe(q, ok, sc, sz) ==
    [attempt |-> attempt, quality |-> q, ok |-> ok, score |-> sc, size |-> sz]

LoopTrial ==
    /\ pc = "loop"
    /\ Len(probes) < MaxTrials
    /\ quality >= -MaxUnder
    /\ \E ans \in TrialAnswers :
         /\ MayAnswer(<<"trial", quality>>, ans)
         /\ Answered(<<"trial", quality>>, ans)
         /\ probes' = Append(probes, Probe(quality, ans[1], ans[2], ans[3]))
         /\ IF ~ans[1]
            THEN /\ Return(Failure("Couldn't run image trial"))
                 /\ trialFailed' = TRUE
                 /\ UNCHANGED <<quality, trials, score, size, exit>>
            ELSE LET sc == ans[2]
                     sz == ans[3]
                     tr == recordAttempt(trials, quality, sc, sz)
                     interval == getQualityInterval(sc, threshold, quality)
                 IN /\ score' = sc
                    /\ size' = sz
                    /\ trials' = tr
                    /\ trialFailed' = trialFailed
                    /\ result' = result
                    /\ IF Escapes(tr[quality].attempts)
                       THEN /\ quality' = IF SizeRegressed(sz, inputSize)
                                          THEN quality - Nudge
                                          ELSE quality + Nudge
                            /\ exit' = "escaped"
                            /\ pc' = "post"
                       ELSE IF SizeRegressed(sz, inputSize)
                       THEN /\ quality' = quality - interval
                            /\ exit' = IF LoopAgain(sc, threshold, sz, inputSize)
                                       THEN "none" ELSE "condition"
                            /\ pc' = IF LoopAgain(sc, threshold, sz, inputSize)
                                     THEN "loop" ELSE "post"
                       ELSE IF Converges(sc, threshold)
                       THEN /\ quality' = quality
                            /\ exit' = "converged"
                            /\ pc' = "post"
                       ELSE /\ quality' = clampQuality(quality + interval)
                            /\ exit' = IF LoopAgain(sc, threshold, sz, inputSize)
                                       THEN "none" ELSE "condition"
                            /\ pc' = IF LoopAgain(sc, threshold, sz, inputSize)
                                     THEN "loop" ELSE "post"
    /\ UNCHANGED <<args, threshold, thresholdMultiplier, start, prior,
                   inputSize, attempt, calls, run, first>>

(***************************************************************************)
(* After the loop, lines 167-177.                                          *)
(***************************************************************************)
\* [quality, size] = getFinalQuality(score, trials), line 168; destructuring
\* the result of a search that finds no entry throws
SelectFinal ==
    /\ pc = "post"
    /\ Succeeds(score, threshold, size, inputSize)
    /\ IF candidates(score, trials) = {}
       THEN /\ Return(Threw)
            /\ UNCHANGED <<quality, size>>
       ELSE /\ quality' = getFinalQuality(score, trials)[1]
            /\ size' = getFinalQuality(score, trials)[2]
            /\ pc' = "confirm"
            /\ result' = result
    /\ UNCHANGED <<args, threshold, thresholdMultiplier, start, prior, trials,
                   inputSize, score, attempt, exit, probes, calls, trialFailed,
                   world, flips, run, first>>

ConfirmTrialMissing ==
    /\ pc = "confirm"
    /\ pc' = "cleanup"
    /\ UNCHANGED <<args, threshold, thresholdMultiplier, start, prior, quality,
                   trials, inputSize, score, size, result, attempt, exit,
                   probes, calls, trialFailed, world, flips, run, first>>

\* await trial(input, inputSize, files, quality, true, {}), line 170: the
\* value it resolves to is dropped
ConfirmTrial ==
    /\ pc = "confirm"
    /\ \E ans \in OkOrNot :
         /\ MayAnswer(<<"confirm", quality>>, ans)
         /\ Answered(<<"confirm", quality>>, ans)
         /\ trialFailed' = (trialFailed \/ ~ans[1])
    /\ pc' = "cleanup"
    /\ Called("confirm")
    /\ UNCHANGED <<args, threshold, thresholdMultiplier, start, prior, quality,
                   trials, inputSize, score, size, result, attempt, exit,
                   probes, run, first>>

\* await cleanUp(files) and the return of the candidate, lines 171-173
CleanUp ==
    /\ pc = "cleanup"
    /\ \E ans \in OkOrNot :
         /\ MayAnswer(<<"cleanUp", 0>>, ans)
         /\ Answered(<<"cleanUp", 0>>, ans)
    /\ Called("cleanup")
    /\ Return(Success("Candidate found", quality, size))
    /\ UNCHANGED <<args, threshold, thresholdMultiplier, start, prior, quality,
                   trials, inputSize, score, size, attempt, exit, probes,
                   trialFailed, run, first>>

\* return await webpRecompress(input, roundTo(threshold * thresholdMultiplier),
\* thresholdMultiplier, quality, quiet, verbose, true, trials), line 177
Relax ==
    /\ pc = "post"
    /\ ~Succeeds(score, threshold, size, inputSize)
    /\ attempt < MaxAttempts
    /\ threshold' = relaxThreshold(threshold, thresholdMultiplier)
    /\ start' = quality
    /\ prior' = TRUE
    /\ attempt' = attempt + 1
    /\ exit' = "none"
    /\ pc' = "entry"
    /\ UNCHANGED <<args, thresholdMultiplier, quality, trials, inputSize, score,
                   size, result, probes, calls, trialFailed, world, flips, run,
                   first>>

Next ==
    \/ Invoke
    \/ PngStatInput
    \/ PngEncode
    \/ PngStatOutput
    \/ Validate
    \/ StatInput
    \/ Identify
    \/ Convert
    \/ LoopTrial
    \/ SelectFinal
    \/ ConfirmTrial
    \/ CleanUp
    \/ Relax

Spec == Init /\ [][Next]_vars

(***************************************************************************)
(* Properties.                                                             *)
(***************************************************************************)
Done == pc = "done"
Succeeded == Done /\ args.kind = "jpeg" /\ result.state = "success"
LastProbe == probes[Len(probes)]
\* the loop's trials of the current attempt
CurProbes == SelectSeq(probes, LAMBDA p : p.attempt = attempt)
\* entries of the table whose recorded score passes the current threshold
Passing == {q \in DOMAIN trials : trials[q].score <= threshold}

\* C1: a search of a JPEG that returns success reports a size strictly below
\* inputSize and a quality whose recorded score is <= the threshold of the
\* attempt that succeeded.
C1_SuccessSmallerAndPassing ==
    Succeeded =>
        /\ result.size < inputSize
        /\ result.quality \in Passing

\* C2: when the loop is left through branch (b) at quality q, the record
\* trials[q] has score <= threshold and size < inputSize.
C2_ConvergedRecordPasses ==
    (pc = "post" /\ exit = "converged") =>
        /\ trials[quality].score <= threshold
        /\ trials[quality].size < inputSize

\* C3: with a trial evaluator that always returns a measurement, every
\* attempt ends after finitely many trials because its trials are run at the
\* 101 qualities of [0,100] only, each at most 4 times.
C3_AttemptConfined ==
    (\A i \in 1..Len(probes) : probes[i].ok) =>
    \A i \in 1..Len(probes) :
        /\ probes[i].quality \in MinQuality..MaxQuality
        /\ Cardinality({j \in 1..Len(probes) :
                           /\ probes[j].attempt = probes[i].attempt
                           /\ probes[j].quality = probes[i].quality})
              <= MaxRetries + 1

\* the attempt just escaped after probing one quality only, every trial of
\* the search at that quality having measured the same, non-converging
EscapedOnConstant ==
    /\ pc = "post"
    /\ exit = "escaped"
    /\ \A i \in 1..Len(CurProbes) : CurProbes[i].quality = LastProbe.quality
    /\ \A i \in 1..Len(probes) :
          probes[i].quality = LastProbe.quality =>
              probes[i].score = score /\ probes[i].size = size
    /\ ~Succeeds(score, threshold, size, inputSize)
\* attempts recorded for that quality before this attempt began
Carried == trials[LastProbe.quality].attempts - Len(CurProbes)
NudgedFrom(q) == IF size >= inputSize THEN q - Nudge ELSE q + Nudge

C5_FinalIsSizeOptimal ==
    Succeeded =>
        /\ result.quality \in Passing
        /\ \A q \in Passing : trials[result.quality].size <= trials[q].size

\* the step from a failed attempt to its retry
Retried == pc = "post" /\ pc' = "entry"
MultiplierAtLeastOne == thresholdMultiplier[1] >= thresholdMultiplier[2]

\* C6 as stated: with thresholdMultiplier >= 1 a retry never uses a smaller
\* threshold than the attempt that failed.
C6_RelaxationLoosens ==
    [][(Retried /\ MultiplierAtLeastOne) => threshold' >= threshold]_vars

OnGrid(th) == th % RoundStep = 0
\* C6 amended: the retry uses roundTo(threshold * thresholdMultiplier); with
\* thresholdMultiplier >= 1 that is >= threshold whenever threshold is a
\* multiple of roundTo's precision, as every relaxed threshold is.
C6_RelaxationLoosensOnGrid ==
    [][Retried =>
          /\ threshold' = roundTo(threshold * thresholdMultiplier[1],
                                  thresholdMultiplier[2])
          /\ OnGrid(threshold')
          /\ ((MultiplierAtLeastOne /\ OnGrid(threshold)) => threshold' >= threshold)
      ]_vars
C6_Witness == attempt = 3 /\ threshold > args.threshold

\* the quality the first trial is due at: the guess, else the clamped start
StartingQuality ==
    IF world[<<"identify", 0>>][1] THEN world[<<"identify", 0>>][2]
    ELSE clampStart(args.start)
FirstTrialPasses ==
    /\ Len(probes) >= 1
    /\ probes[1].ok
    /\ probes[1].size < inputSize
    /\ probes[1].score <= args.threshold

\* C7: if the trial at the starting quality q0 measures size < inputSize and
\* score <= threshold, the loop runs that one trial only, nothing is relaxed,
\* and the search reports q0 with that size.
C7_FirstTrialConverges ==
    FirstTrialPasses =>
        /\ Len(probes) = 1
        /\ attempt = 1
        /\ pc \in {"post", "confirm", "cleanup", "done"}
        /\ exit = "converged"
        /\ quality = StartingQuality
        /\ probes[1].quality = StartingQuality
        /\ Done => result = Success("Candidate found", StartingQuality, probes[1].size)
C7_Witness == FirstTrialPasses /\ Done /\ result.state = "success"

\* C8: a PNG input runs no trial, no quality guess, no reference conversion
\* and no relaxation; the lossless encode is attempted at most once, and a
\* failed size probe or encode ends the call at once with a failure.
C8_PngBypassesSearch ==
    (args.kind = "png" /\ pc # "idle") =>
        /\ probes = <<>>
        /\ calls.identify = 0 /\ calls.convert = 0 /\ calls.confirm = 0
        /\ calls.cleanup = 0
        /\ attempt = 1
        /\ calls.encode <= 1
        /\ (Done /\ result.state = "success") => calls.encode = 1
        /\ (calls.stat >= 1 /\ ~world[<<"statInput", 0>>][1]) =>
              Done /\ result.state = "failure" /\ calls.encode = 0 /\ calls.stat = 1
        /\ (calls.encode = 1 /\ ~world[<<"encodeWebp", MaxQuality>>][1]) =>
              Done /\ result.state = "failure" /\ calls.stat = 1
C8_Witness ==
    /\ args.kind = "png" /\ Done /\ calls.encode = 1
    /\ ~world[<<"encodeWebp", MaxQuality>>][1]

\* C9: the same top-level call repeated with collaborators that answer as
\* before probes the same qualities in the same order and returns the same
\* result.
C9_RepeatedCallAgrees ==
    run = 2 =>
        /\ Len(probes) <= Len(first.probes)
        /\ \A i \in 1..Len(probes) : probes[i] = first.probes[i]
        /\ Done => (result = first.result /\ probes = first.probes)
C9_Witness ==
    run = 2 /\ Done /\ result.state = "success" /\ Len(probes) >= 5 /\ attempt >= 2

\* C10: once a trial of the search has reported an error the search returns
\* a failure.
C10_TrialFailureIsFatal ==
    (Done /\ trialFailed) => result.state = "failure"

\* C11: a JPEG search called with a threshold outside [0,1] returns a failure
\* and has invoked no collaborator.
C11_BadThresholdBeforeWork ==
    (args.kind = "jpeg" /\ (args.threshold > TScale \/ args.threshold < 0)
        /\ pc # "idle") =>
        /\ pc \in {"entry", "done"}
        /\ calls = NoCalls
        /\ probes = <<>>
        /\ Done => result = Failure("Threshold must be between 0 and 1.")
C11_Witness ==
    /\ args.kind = "jpeg" /\ args.threshold < 0 /\ Done
    /\ result = Failure("Threshold must be between 0 and 1.")
    /\ calls = NoCalls

\* C12: every quality the loop runs a trial at, and every key of the trials
\* table, is an integer of [0,100].
C12_QualityInRange ==
    /\ \A i \in 1..Len(probes) : probes[i].quality \in MinQuality..MaxQuality
    /\ DOMAIN trials \subseteq MinQuality..MaxQuality

\* the last loop trial belongs to the current attempt and passes its threshold
LastTrialPasses ==
    /\ Len(probes) >= 1
    /\ LastProbe.ok
    /\ LastProbe.attempt = attempt
    /\ LastProbe.score <= threshold
    /\ LastProbe.size < inputSize
PastSelector == pc \in {"confirm", "cleanup"} \/ (Done /\ result.state = "success")

\* C13 as stated: an attempt in which the escape rule fired never reaches
\* the Final Candidate Selector and never reports success.
C13_EscapedNeverSucceeds ==
    (args.kind = "jpeg" /\ exit = "escaped") => ~PastSelector

\* C13 amended: an escaped attempt goes to the Final Candidate Selector
\* exactly when the escaping trial itself passed, and is retried otherwise;
\* success is only reported by an attempt whose last loop trial passed, the
\* loop having been left by the escape rule or by branch (b).
C13_EscapedSucceedsIffPassing ==
    /\ []((args.kind = "jpeg" /\ PastSelector) =>
             LastTrialPasses /\ exit \in {"escaped", "converged"})
    /\ [][(pc = "post" /\ exit = "escaped") =>
             IF LastTrialPasses
             THEN pc' \in {"confirm", "done"} /\ attempt' = attempt
             ELSE pc' = "entry" /\ prior' /\ attempt' = attempt + 1]_vars
C13_Witness == Succeeded /\ exit = "escaped" /\ attempt = 2

\* the threshold of the k-th attempt of the search, lines 17 and 177
RECURSIVE ThresholdOf(_)
ThresholdOf(k) ==
    IF k <= 1 THEN args.threshold
    ELSE relaxThreshold(ThresholdOf(k - 1), args.thresholdMultiplier)
\* trials run so far at the quality of the i-th trial, that trial included
VisitsUpTo(i) ==
    Cardinality({j \in 1..i : probes[j].quality = probes[i].quality})
\* the i-th trial returned a size regression and the escape rule let it pass
RegressedAt(i) ==
    /\ probes[i].ok
    /\ probes[i].size >= inputSize
    /\ VisitsUpTo(i) <= MaxRetries
LoweredFrom(i) ==
    probes[i].quality - getQualityInterval(probes[i].score,
                                           ThresholdOf(probes[i].attempt),
                                           probes[i].quality)

\* C14: a trial that returns size >= inputSize without triggering the escape
\* rule never ends the loop, whatever its score, and the next trial is run
\* in the same attempt at the quality minus the interval, strictly lower.
C14_SizeRegressionFirst ==
    \A i \in 1..Len(probes) :
        RegressedAt(i) =>
            /\ LoweredFrom(i) < probes[i].quality
            /\ IF i < Len(probes)
               THEN /\ probes[i + 1].attempt = probes[i].attempt
                    /\ probes[i + 1].quality = LoweredFrom(i)
               ELSE /\ pc = "loop"
                    /\ exit = "none"
                    /\ quality = LoweredFrom(i)
C14_Witness ==
    /\ Len(probes) >= 2
    /\ RegressedAt(1)
    /\ probes[1].score <= threshold
    /\ probes[2].quality < probes[1].quality

\* the variable trials holds the table of the search in progress, line 70
TableInUse == args.kind = "jpeg" /\ pc # "idle" /\ (pc # "entry" \/ prior)

\* C15 as stated: no quality is probed more than 4 times in one top-level
\* search, relaxed attempts included: trials[q].attempts <= 4 for every q.
C15_AtMostFourPerQuality ==
    TableInUse =>
    \A q \in DOMAIN trials : trials[q].attempts <= MaxRetries + 1

\* trials of the k-th attempt that were run at quality q
ProbesIn(k, q) ==
    Cardinality({i \in 1..Len(probes) :
                    probes[i].attempt = k /\ probes[i].quality = q /\ probes[i].ok})

\* C15 amended: within one attempt no quality is probed more than 4 times;
\* over the whole search trials[q].attempts counts every trial run at q and
\* is at most 3 plus the number of attempts made so far.
C15_AtMostFourPerAttempt ==
    TableInUse =>
    \A q \in DOMAIN trials :
        /\ \A k \in 1..MaxAttempts : ProbesIn(k, q) <= MaxRetries + 1
        /\ trials[q].attempts <= MaxRetries + attempt
        /\ trials[q].attempts =
                  Cardinality({i \in 1..Len(probes) :
                                  probes[i].quality = q /\ probes[i].ok})
C15_Witness ==
    TableInUse /\ \E q \in DOMAIN trials :
        /\ trials[q].attempts = MaxRetries + 2
        /\ ProbesIn(1, q) = MaxRetries + 1
        /\ ProbesIn(2, q) = 1

GuessFailed == ~world[<<"identify", 0>>][1]

\* C16: in a JPEG search the quality guesser is invoked once, before the
\* first trial and never in a relaxed attempt; when the guess fails the
\* first trial is run at the caller's start clamped to [0,100].
C16_GuessOnlyFirstAttempt ==
    (args.kind = "jpeg" /\ pc # "idle") =>
        /\ calls.identify <= 1
        /\ pc = "identify" =>
              ~prior /\ attempt = 1 /\ probes = <<>> /\ calls.identify = 0
        /\ pc \in {"convert", "loop", "post", "confirm", "cleanup"} =>
              calls.identify = 1
        /\ Len(probes) >= 1 =>
              /\ calls.identify = 1
              /\ GuessFailed => probes[1].quality = clampStart(args.start)
              /\ ~GuessFailed => probes[1].quality = world[<<"identify", 0>>][2]
C16_Witness ==
    /\ args.kind = "jpeg"
    /\ attempt = 2
    /\ Len(CurProbes) >= 1
    /\ calls.identify = 1
    /\ GuessFailed
    /\ args.start > MaxQuality

\* the quality an attempt whose last trial was the i-th hands to its retry:
\* the escape nudge of lines 142-146, then the clamp of lines 59-61
HandedOn(i) ==
    clampStart(IF probes[i].size >= inputSize
               THEN probes[i].quality - Nudge
               ELSE probes[i].quality + Nudge)
\* every record of the table is still there, with its score and size
TableKept ==
    \A q \in DOMAIN trials :
        /\ q \in DOMAIN trials'
        /\ trials'[q].score = trials[q].score
        /\ trials'[q].size = trials[q].size
        /\ trials'[q].attempts >= trials[q].attempts

\* C17: the first trial of a relaxed attempt is run at the quality the
\* previous attempt ended on (nudged by the escape, clamped to [0,100]); the
\* relaxed attempt starts with the very table the previous attempt left, and
\* no step of a search removes a record or changes its score or size.
C17_RelaxationCarriesHistory ==
    /\ [](\A i \in 1..(Len(probes) - 1) :
             probes[i + 1].attempt # probes[i].attempt =>
                 /\ probes[i + 1].attempt = probes[i].attempt + 1
                 /\ probes[i + 1].quality = HandedOn(i))
    /\ [][(TableInUse /\ TableInUse') => TableKept]_vars
    /\ [][(pc = "entry" /\ prior) => trials' = trials]_vars
C17_Witness ==
    /\ TableInUse
    /\ attempt = 2
    /\ Cardinality(DOMAIN trials) >= 2
    /\ \E i \in 1..(Len(probes) - 1) :
          /\ probes[i].attempt = 1
          /\ probes[i + 1].attempt = 2
          /\ probes[i + 1].quality # probes[i].quality
          /\ trials[probes[i].quality].attempts = MaxRetries + 1

\* the step is the confirming trial of line 170, run at quality q
ConfirmsAt(q) ==
    /\ calls'.confirm = calls.confirm + 1
    /\ <<"confirm", q>> \in DOMAIN world'
    /\ pc' = "cleanup"

\* C18: a search that returns success has run exactly one trial after
\* getFinalQuality, at the quality getFinalQuality selected; no trial follows
\* it and it leaves the trials table as it was.
C18_OneConfirmingTrial ==
    /\ [](args.kind = "jpeg" =>
            /\ calls.confirm = IF pc = "cleanup" \/ Succeeded THEN 1 ELSE 0
            /\ pc \in {"confirm", "cleanup"} \/ Succeeded =>
                  candidates(score, trials) # {}
            /\ Succeeded => result.quality = getFinalQuality(score, trials)[1])
    /\ [][pc = "confirm" =>
             /\ quality = getFinalQuality(score, trials)[1]
             /\ ConfirmsAt(quality)
             /\ trials' = trials
             /\ probes' = probes]_vars
    /\ [][pc = "cleanup" =>
             /\ calls'.confirm = calls.confirm
             /\ trials' = trials
             /\ probes' = probes
             /\ pc' = "done"
             /\ result'.quality = quality]_vars
C18_Witness ==
    /\ Succeeded
    /\ calls.confirm = 1
    /\ flips = 0
    /\ result.quality # LastProbe.quality
    /\ <<"confirm", LastProbe.quality>> \notin DOMAIN world

\* C19: a JPEG search that has run a trial invokes cleanup exactly once
\* before it returns, with a success or with a failure, never before the
\* confirming trial and never more than once.
C19_CleanedUpOnce ==
    args.kind = "jpeg" =>
        /\ calls.cleanup <= 1
        /\ calls.cleanup = 1 => calls.confirm = 1
        /\ (Done /\ Len(probes) >= 1) => calls.cleanup = 1

MultiplierAboveOne == args.thresholdMultiplier[1] > args.thresholdMultiplier[2]
\* every relaxation so far raised the threshold: rounding cancelled none
NoRelaxationCancelled ==
    \A k \in 1..(attempt - 1) : ThresholdOf(k + 1) > ThresholdOf(k)
\* the most attempts that can get past the threshold check: from the second
\* on each attempt's threshold is one more multiple of roundTo's precision
MaxWorkingAttempts == 1 + TScale \div RoundStep
AtWork == pc \in {"statInput", "identify", "convert", "loop", "post",
                  "confirm", "cleanup"}

\* every trial of the search returned a measurement that did not pass the
\* threshold of its attempt
NoQualityPassed ==
    \A i \in 1..Len(probes) :
        /\ probes[i].ok
        /\ ~Succeeds(probes[i].score, ThresholdOf(probes[i].attempt),
                     probes[i].size, inputSize)
\* the search was not ended by the size probe or the reference conversion
SetUpHeld ==
    result.msg \notin {"Couldn't get the size of JPEG input.",
                       "Couldn't create a PNG reference from the JPEG given"}

\* C20: with thresholdMultiplier > 1, an initial threshold in (0,1] and no
\* relaxation cancelled by rounding, the relaxed call whose threshold exceeds
\* 1 returns 'Threshold must be between 0 and 1.' without running a trial, so
\* the number of attempts of one search is bounded; a search in which no
\* quality passed and no collaborator failed can only return that failure.
C20_RelaxationDepthBounded ==
    (args.kind = "jpeg" /\ pc # "idle") =>
        /\ threshold = ThresholdOf(attempt)
        /\ AtWork => threshold <= TScale
        /\ (prior /\ threshold > TScale /\ pc # "entry") =>
              /\ Done
              /\ result = Failure("Threshold must be between 0 and 1.")
              /\ CurProbes = <<>>
              /\ calls.cleanup = 0 /\ calls.confirm = 0
        /\ (MultiplierAboveOne /\ args.threshold \in 1..TScale
              /\ NoRelaxationCancelled) =>
              /\ attempt >= 2 => threshold >= (attempt - 1) * RoundStep
              /\ AtWork => attempt <= MaxWorkingAttempts
              /\ attempt <= MaxWorkingAttempts + 1
        /\ (Done /\ Len(probes) >= 1 /\ NoQualityPassed /\ SetUpHeld) =>
              /\ prior /\ threshold > TScale
              /\ result = Failure("Threshold must be between 0 and 1.")
C20_Witness ==
    /\ args.kind = "jpeg"
    /\ MultiplierAboveOne /\ args.threshold \in 1..TScale
    /\ NoRelaxationCancelled
    /\ attempt = MaxWorkingAttempts + 1
    /\ Done
    /\ result = Failure("Threshold must be between 0 and 1.")
    /\ Len(probes) >= MaxRetries + 1
    /\ NoQualityPassed

====
